---- MODULE Spec2Model ----
(***************************************************************************)
(* Adaptive signal control and telemetry fan-out of the smart urban        *)
(* traffic manager: backend/simulation_manager.py (the stand-alone         *)
(* driver) and backend/simulation_server.py (the driver that also feeds    *)
(* the websocket broadcast loop).                                          *)
(***************************************************************************)
EXTENDS Integers, Sequences, FiniteSets, TLC

\* ------------------------------------------------------------ constants
MIN_GREEN_TIME == 10
YELLOW_PHASE_DURATION == 4
\* Python's None, where the code stores it in a slot that also holds phase
\* indices or snapshots.
None == -1

\* The single key of PHASE_MAPS: the signal the server's telemetry names.
MainTls == "clusterJ10_J14_J15_J16"

\* ------------------------------------------------------------ bounds
\* max_steps given to the stand-alone driver / the driver under Spec.
MaxSteps == 24
\* max_steps given to the server's driver under SpecPipe.
PipeMaxSteps == 2
CmdMaxSteps == 3
MaxTexts == 2
\* Phases of a programme drawn for discovery.
MaxPhases == 2
\* Per-lane waiting times the engine may report.
WaitValues == {0, 5, 30}

\* ------------------------------------------------------------ networks
\* A phase's light-string is a sequence of one-character strings; a
\* controlled link is <<incoming lane, outgoing lane, via lane>>.
Link(lane) == <<lane, "out", "via">>

\* One signal, the usual four-phase programme: phase 0 serves L1 and L2,
\* phase 2 serves L3, each followed by its yellow phase.
NetF1 ==
  [ tls    |-> <<MainTls>>,
    phases |-> [t \in {MainTls} |->
                 << <<"G","G","r">>, <<"y","y","r">>,
                    <<"r","r","G">>, <<"r","r","y">> >>],
    links  |-> [t \in {MainTls} |->
                 << <<Link("L1")>>, <<Link("L2")>>, <<Link("L3")>> >>] ]

\* Two signals without a usable clearance: the main signal has two green
\* phases and no yellow phase at all, and its second link position controls
\* no link; J2 has one green phase followed by its yellow phase.
NetDegraded ==
  [ tls    |-> <<MainTls, "J2">>,
    phases |-> [t \in {MainTls, "J2"} |->
                 IF t = MainTls
                 THEN << <<"G","r">>, <<"r","g">> >>
                 ELSE << <<"g">>, <<"y">> >>],
    links  |-> [t \in {MainTls, "J2"} |->
                 IF t = MainTls
                 THEN << <<Link("A1")>>, <<>> >>
                 ELSE << <<Link("B1")>> >>] ]

\* One signal, not the one the server's telemetry names.
NetOther ==
  [ tls    |-> <<"J3">>,
    phases |-> [t \in {"J3"} |-> << <<"G">>, <<"y">>, <<"r">> >>],
    links  |-> [t \in {"J3"} |-> << <<Link("C1")>> >>] ]

\* A network without traffic signals.
NetNone ==
  [ tls    |-> <<>>,
    phases |-> [t \in {} |-> <<>>],
    links  |-> [t \in {} |-> <<>>] ]

\* One signal with a single all-red phase: nothing to control.
NetQuiet ==
  [ tls    |-> <<MainTls>>,
    phases |-> [t \in {MainTls} |-> << <<"r">> >>],
    links  |-> [t \in {MainTls} |-> << <<Link("Q1")>> >>] ]

\* Two signals with green phases that serve nothing: phase 0 of the main
\* signal shows go only where no link is controlled (its phase 1 serves
\* H1), and the only phase of J4 is such a phase.
NetHollow ==
  [ tls    |-> <<MainTls, "J4">>,
    phases |-> [t \in {MainTls, "J4"} |->
                 IF t = MainTls
                 THEN << <<"G","r">>, <<"r","G">> >>
                 ELSE << <<"G">> >>],
    links  |-> [t \in {MainTls, "J4"} |->
                 IF t = MainTls
                 THEN << <<>>, <<Link("H1")>> >>
                 ELSE << <<>> >>] ]

\* Two signals; the main one has two programmes. "phases" is the first one
\* defined, the four-phase programme; the engine runs the other, "running",
\* which has two phases.
NetTwoProgrammes ==
  [ tls     |-> <<MainTls, "J2">>,
    phases  |-> [t \in {MainTls, "J2"} |->
                  IF t = MainTls
                  THEN << <<"G","G","r">>, <<"y","y","r">>,
                          <<"r","r","G">>, <<"r","r","y">> >>
                  ELSE << <<"g">>, <<"y">> >>],
    links   |-> [t \in {MainTls, "J2"} |->
                  IF t = MainTls
                  THEN << <<Link("L1")>>, <<Link("L2")>>, <<Link("L3")>> >>
                  ELSE << <<Link("B1")>> >>],
    running |-> [t \in {MainTls} |-> << <<"G","G","G">>, <<"y","y","y">> >>] ]

Range(s) == {s[k] : k \in 1..Len(s)}
TlsIds(n) == Range(n.tls)
\* The phases of getCompleteRedYellowGreenDefinition(tls_id)[0].
PhaseCount(n, t) == Len(n.phases[t])
\* The phases of the programme the engine runs for signal t: the first one
\* defined unless the network says otherwise.
RunningPhaseCount(n, t) ==
  IF "running" \in DOMAIN n /\ t \in DOMAIN n.running
  THEN Len(n.running[t])
  ELSE PhaseCount(n, t)
\* Incoming lanes of every controlled link of the network.
Lanes(n) ==
  UNION {UNION {{lk[1] : lk \in Range(n.links[t][k])} : k \in 1..Len(n.links[t])}
         : t \in TlsIds(n)}

\* ------------------------------------------------------------ discovery
\* str.lower() on one character of a light-string.
Lower(c) ==
  CASE c = "G" -> "g"
    [] c = "Y" -> "y"
    [] c = "R" -> "r"
    [] OTHER   -> c

LowerState(s) == [k \in 1..Len(s) |-> Lower(s[k])]

IsGreenPhaseAnyGo(s) == "g" \in Range(LowerState(s))

\* 'g' in state and 'y' not in state
IsGreenPhase(s) == "g" \in Range(LowerState(s)) /\ "y" \notin Range(LowerState(s))

\* green_phases: 0-based indices of the phases that pass the test.
GreenPhases(phases) == {i \in 0..(Len(phases) - 1) : IsGreenPhase(phases[i + 1])}

\* yellow_phase_map: the next phase of the programme, if it shows any 'y'.
YellowPhaseMap(phases) ==
  LET next(g) == (g + 1) % Len(phases)
      keys == {g \in GreenPhases(phases) : "y" \in Range(LowerState(phases[next(g) + 1]))}
  IN [g \in keys |-> next(g)]

PhaseLanesAllLinks(phases, links, p) ==
  UNION {{lk[1] : lk \in Range(links[k])} : k \in 1..Len(links)}

\* phase_to_lanes_map[p]: link[0] of every link at a position where phase p
\* shows 'g'.
PhaseLanes(phases, links, p) ==
  LET st == LowerState(phases[p + 1])
  IN UNION {{lk[1] : lk \in Range(links[k])}
            : k \in {j \in 1..Len(links) : j <= Len(st) /\ st[j] = "g"}}

\* 'phase_to_lanes': the green phases whose lane set is not empty.
PhaseToLanes(phases, links) ==
  LET keys == {p \in GreenPhases(phases) : PhaseLanes(phases, links, p) /= {}}
  IN [p \in keys |-> PhaseLanes(phases, links, p)]

\* The record simulation_manager.py stores for one signal.
DiscoverManager(phases, links, enginePhaseNow) ==
  [ phase_to_lanes      |-> PhaseToLanes(phases, links),
    yellow_phase_map    |-> YellowPhaseMap(phases),
    timer               |-> 0,
    state               |-> "GREEN",
    current_phase_index |-> enginePhaseNow,
    target_phase        |-> None ]

\* The record simulation_server.py stores for one signal.
DiscoverServer(phases, links) ==
  [ phase_to_lanes   |-> PhaseToLanes(phases, links),
    yellow_phase_map |-> YellowPhaseMap(phases),
    timer            |-> 0,
    state            |-> "GREEN",
    target_phase     |-> None ]

\* ------------------------------------------------------------ control
\* sum(traci.lane.getWaitingTime(lane) for lane in lanes)
RECURSIVE Pressure(_, _)
Pressure(lanes, w) ==
  IF lanes = {} THEN 0
  ELSE LET l == CHOOSE x \in lanes : TRUE
       IN w[l] + Pressure(lanes \ {l}, w)

\* The order in which a dict built by enumerate() yields its keys: the
\* order of insertion, which is ascending phase index.
RECURSIVE KeyOrder(_)
KeyOrder(keys) ==
  IF keys = {} THEN <<>>
  ELSE LET m == CHOOSE x \in keys : \A y \in keys : x <= y
       IN <<m>> \o KeyOrder(keys \ {m})

\* if pressure > max_pressure
Better(pressure, max_pressure) == pressure > max_pressure

\* The loop over tls_data['phase_to_lanes'].items(), from
\* max_pressure = -1 and best_phase_index = the current phase.
RECURSIVE ScanPhases(_, _, _, _)
ScanPhases(order, p2l, w, acc) ==
  IF order = <<>> THEN acc
  ELSE LET p == Head(order)
           pressure == Pressure(p2l[p], w)
       IN ScanPhases(Tail(order), p2l, w,
            IF Better(pressure, acc.max_pressure)
            THEN [max_pressure |-> pressure, best_phase_index |-> p]
            ELSE acc)

BestPhase(p2l, w, cur) ==
  ScanPhases(KeyOrder(DOMAIN p2l), p2l, w,
             [max_pressure |-> -1, best_phase_index |-> cur])

GreenHoldEarly(timer) == timer < MIN_GREEN_TIME - 1

\* if tls_data['timer'] < MIN_GREEN_TIME: return
GreenHold(timer) == timer < MIN_GREEN_TIME

YellowElapsedLate(timer) == timer > YELLOW_PHASE_DURATION

\* if tls_data['timer'] >= YELLOW_PHASE_DURATION
YellowElapsed(timer) == timer >= YELLOW_PHASE_DURATION

SwitchWantedAboveFive(best, cur, max_pressure) == best /= cur /\ max_pressure > 5

SwitchWantedAtZero(best, cur, max_pressure) == best /= cur /\ max_pressure >= 0

\* if best_phase_index != current_phase_index and max_pressure > 0
SwitchWanted(best, cur, max_pressure) == best /= cur /\ max_pressure > 0

\* What one call of the state machine did: the new record, the phase
\* indices passed to traci.trafficlight.setPhase in order, and the branch
\* taken ("hold", "commit", "yellow" or "direct").
OutcomeSetsTwice(d, calls, kind) ==
  [data |-> d, calls |-> calls \o calls, kind |-> kind]

Outcome(d, calls, kind) == [data |-> d, calls |-> calls, kind |-> kind]

DirectManagerKeepsTimer(d, best) == [d EXCEPT !.current_phase_index = best]

\* The record after the fallback without a yellow phase:
\* tls_data['current_phase_index'] = best_phase_index, tls_data['timer'] = 0
DirectManager(d, best) == [d EXCEPT !.current_phase_index = best, !.timer = 0]

\* simulation_manager.py: _control_traffic_light_state_machine
ManagerControl(d0, w) ==
  LET d == [d0 EXCEPT !.timer = @ + 1] IN
  IF d.state = "YELLOW"
  THEN IF YellowElapsed(d.timer)
       THEN Outcome([d EXCEPT !.current_phase_index = d.target_phase,
                              !.state = "GREEN",
                              !.timer = 0],
                    <<d.target_phase>>, "commit")
       ELSE Outcome(d, <<>>, "hold")
  ELSE IF d.state = "GREEN"
  THEN IF GreenHold(d.timer)
       THEN Outcome(d, <<>>, "hold")
       ELSE LET cur == d.current_phase_index
                b   == BestPhase(d.phase_to_lanes, w, cur)
            IN IF SwitchWanted(b.best_phase_index, cur, b.max_pressure)
               THEN IF cur \in DOMAIN d.yellow_phase_map
                    THEN Outcome([d EXCEPT !.state = "YELLOW",
                                           !.target_phase = b.best_phase_index,
                                           !.timer = 0],
                                 <<d.yellow_phase_map[cur]>>, "yellow")
                    ELSE Outcome(DirectManager(d, b.best_phase_index),
                                 <<b.best_phase_index>>, "direct")
               ELSE Outcome(d, <<>>, "hold")
  ELSE Outcome(d, <<>>, "hold")

\* simulation_server.py: _control_traffic_light_state_machine, which is
\* handed the engine's current phase instead of keeping its own.
ServerControl(d0, w, current_phase_index) ==
  LET d == [d0 EXCEPT !.timer = @ + 1] IN
  IF d.state = "YELLOW"
  THEN IF YellowElapsed(d.timer)
       THEN Outcome([d EXCEPT !.state = "GREEN", !.timer = 0],
                    <<d.target_phase>>, "commit")
       ELSE Outcome(d, <<>>, "hold")
  ELSE IF d.state = "GREEN"
  THEN IF GreenHold(d.timer)
       THEN Outcome(d, <<>>, "hold")
       ELSE LET cur == current_phase_index
                b   == BestPhase(d.phase_to_lanes, w, cur)
            IN IF SwitchWanted(b.best_phase_index, cur, b.max_pressure)
               THEN IF cur \in DOMAIN d.yellow_phase_map
                    THEN Outcome([d EXCEPT !.state = "YELLOW",
                                           !.target_phase = b.best_phase_index,
                                           !.timer = 0],
                                 <<d.yellow_phase_map[cur]>>, "yellow")
                    ELSE Outcome([d EXCEPT !.timer = 0],
                                 <<b.best_phase_index>>, "direct")
               ELSE Outcome(d, <<>>, "hold")
  ELSE Outcome(d, <<>>, "hold")

\* ------------------------------------------------------------ state
VARIABLES
  impl,             \* which driver runs: "manager" or "server"
  net,              \* the network the engine has loaded
  max_steps,        \* self.max_steps
  pc,               \* where the simulation thread is in run()
  ctl,              \* position of "for tls_id in self.traffic_lights"
  step,             \* the local step of run()
  traffic_lights,   \* self.traffic_lights
  data_queue,       \* the queue.Queue handed to run()
  enginePhase,      \* the engine: phase each signal shows
  conn,             \* the engine connection: "open" or "closed"
  engineSteps,      \* history: simulationStep() calls that returned
  demand,           \* history: some lane has had a waiting time > 0
  hist,             \* history: per signal, what the state machine did
  trail,            \* history: what run() and the websocket handlers did
  active_connections, \* manager.active_connections
  client,           \* each websocket: "idle", "open", "broken", "closed"
  received,         \* history: the messages each websocket was sent
  bpc,              \* where broadcast_data is
  bmsg,             \* the message manager.broadcast is sending
  bidx,             \* the list iterator of manager.broadcast
  bcur,             \* the websocket manager.broadcast is awaiting
  blog              \* history: what broadcast_data has done

simVars  == <<impl, net, max_steps, pc, ctl, step, traffic_lights, data_queue>>
engVars  == <<enginePhase, conn>>
histVars == <<engineSteps, demand, hist, trail>>
netVars  == <<active_connections, client, received, bpc, bmsg, bidx, bcur, blog>>
vars     == <<simVars, engVars, histVars, netVars>>

\* ------------------------------------------------------------ engine
PhaseIndices(n) == UNION {0..(PhaseCount(n, t) - 1) : t \in TlsIds(n)}

\* traci.trafficlight.setPhase raises for an index outside the programme.
EngineAccepts(n, t, idx) == idx \in 0..(RunningPhaseCount(n, t) - 1)

\* ------------------------------------------------------------ history
NoHist(p) ==
  [ calls |-> <<>>,          \* setPhase indices of the latest control call
    kind |-> "none",         \* the branch the latest control call took
    at |-> 0,                \* engineSteps at the latest control call
    evalCur |-> None,        \* the current phase a pressure evaluation used
    evalWait |-> <<>>,       \* the waiting times that evaluation read
    lastSet |-> None,        \* the last index passed to setPhase
    since |-> 0,             \* control calls since the last transition
    sinceAt |-> 0,           \* "since" when the latest call was made
    stepsSinceSet |-> 0,     \* engine steps since the last setPhase
    stepsAtSet |-> 0,        \* "stepsSinceSet" at the latest setPhase
    prevSet |-> None,        \* the index set before lastSet
    setKind |-> "none",      \* the branch that issued lastSet
    prevSetKind |-> "none",  \* the branch that issued prevSet
    chosen |-> None,         \* the target chosen when YELLOW was entered
    sinceYellow |-> 0,       \* control calls since YELLOW was entered
    found |-> None,          \* the record a call the engine rejected found
    initial |-> p ]          \* the phase shown at discovery

\* The history after one control call with outcome o, which evaluated the
\* pressures (or not) with current phase cur.
Record(h, o, cur, evaluated, w, now) ==
  LET set  == o.calls /= <<>>
      done == o.kind \in {"commit", "direct"}
  IN [h EXCEPT
        !.calls = o.calls,
        !.kind = o.kind,
        !.at = now,
        !.evalCur = IF evaluated THEN cur ELSE None,
        !.evalWait = IF evaluated THEN w ELSE <<>>,
        !.lastSet = IF set THEN o.calls[Len(o.calls)] ELSE @,
        !.prevSet = IF set THEN h.lastSet ELSE @,
        !.setKind = IF set THEN o.kind ELSE @,
        !.prevSetKind = IF set THEN h.setKind ELSE @,
        !.sinceAt = h.since + 1,
        !.since = IF done THEN 0 ELSE @ + 1,
        !.stepsAtSet = IF set THEN h.stepsSinceSet ELSE @,
        !.stepsSinceSet = IF set THEN 0 ELSE @,
        !.chosen = IF o.kind = "yellow" THEN o.data.target_phase ELSE @,
        !.sinceYellow = IF o.kind = "yellow" THEN 0
                        ELSE IF @ <= YELLOW_PHASE_DURATION THEN @ + 1 ELSE @ ]

\* What run() and the websocket handlers have done so far.
NoTrail ==
  [ engineCalls |-> 0,      \* calls into the engine (traci.*) begun by run()
    exit |-> "none",        \* how the loop test failed: "ceiling" or "empty"
    stepsAtExit |-> None,   \* engineSteps when the loop test failed
    closes |-> 0,           \* traci.close() calls
    callsAtSentinel |-> None, \* engineCalls at data_queue.put(None)
    texts |-> <<>> ]        \* what receive_text() returned: [text, at]

\* What broadcast_data has done so far.
NoLog ==
  [ sentinel |-> FALSE,     \* the None item has been taken from the queue
    finished |-> FALSE,     \* the broadcast of the finished message returned
    failed |-> {},          \* the sends that raised: [to, msg]
    stayed |-> {},          \* connected since the current broadcast began
    doneMsg |-> None,       \* the last message whose broadcast returned
    doneStayed |-> {},      \* "stayed" when that broadcast returned
    sends |-> 0,            \* send_text calls begun
    sendsAtFinished |-> None ] \* "sends" when the finished broadcast returned

\* ------------------------------------------------------------ Init
DriverNets == {NetF1, NetDegraded, NetOther, NetNone, NetHollow}

InitNet ==
  /\ active_connections = <<>>
  /\ client = [c \in {} |-> "idle"]
  /\ received = [c \in {} |-> <<>>]
  /\ bpc = "off"
  /\ bmsg = None
  /\ bidx = 0
  /\ bcur = None
  /\ blog = NoLog

\* The state run() is in after traci.start and _discover_network_and_phases.
InitDriver(nets, ceiling, impls) ==
  /\ impl \in impls
  /\ net \in nets
  /\ max_steps = ceiling
  /\ enginePhase \in [TlsIds(net) -> PhaseIndices(net)]
  /\ \A t \in TlsIds(net) : enginePhase[t] < RunningPhaseCount(net, t)
  /\ traffic_lights =
       [t \in TlsIds(net) |->
          IF impl = "manager"
          THEN DiscoverManager(net.phases[t], net.links[t], enginePhase[t])
          ELSE DiscoverServer(net.phases[t], net.links[t])]
  /\ pc = "loop"
  /\ ctl = 0
  /\ step = 0
  /\ data_queue = <<>>
  /\ conn = "open"
  /\ engineSteps = 0
  /\ demand = FALSE
  /\ hist = [t \in TlsIds(net) |-> NoHist(enginePhase[t])]
  /\ trail = NoTrail

Init == InitDriver(DriverNets, MaxSteps, {"manager", "server"}) /\ InitNet

\* ------------------------------------------------------------ driver
\* run() has begun n more calls into the engine.
Called(tr, n) == [tr EXCEPT !.engineCalls = @ + n]

\* The loop test failed: on the ceiling (the engine is not asked then) or
\* on the engine's answer.
Exited(tr) ==
  [tr EXCEPT !.exit = IF step < max_steps THEN "empty" ELSE "ceiling",
             !.stepsAtExit = engineSteps,
             !.engineCalls = IF step < max_steps THEN @ + 1 ELSE @]

\* traci.close()
Closed(tr) == [tr EXCEPT !.closes = @ + 1, !.engineCalls = @ + 1]

\* Discovery asks for the signals and, per signal, for its programmes and
\* its controlled links.
DiscoverCalls == 1 + 2 * Len(net.tls)

\* The engine's side of the loop test and of traci.simulationStep(): two
\* calls. Every phase of the loaded
\* programmes lasts longer than the run, so a signal shows the phase it was
\* last set to (or the one it showed at discovery).
EngineStep ==
  /\ enginePhase' = enginePhase
  /\ engineSteps' = engineSteps + 1
  /\ hist' = [t \in TlsIds(net) |->
                [hist[t] EXCEPT !.stepsSinceSet = @ + 1]]
  /\ trail' = Called(trail, 2)
  /\ UNCHANGED <<conn, demand>>

LoopConditionNoCeiling(more) == more

\* while step < self.max_steps and traci.simulation.getMinExpectedNumber() > 0
\* with the engine's answer more = (getMinExpectedNumber() > 0).
LoopCondition(more) == step < max_steps /\ more

\* The setPhase calls of one control call reach the engine in order.
AfterCalls(ph, t, calls) ==
  IF calls = <<>> THEN ph ELSE [ph EXCEPT ![t] = calls[Len(calls)]]

Accepted(t, calls) == \A k \in 1..Len(calls) : EngineAccepts(net, t, calls[k])

\* Whether a control call on record d reaches the pressure evaluation.
Evaluates(d) == d.state = "GREEN" /\ ~GreenHold(d.timer + 1)

\* The lanes whose waiting time a control call on record d reads.
LanesRead(d) == UNION {d.phase_to_lanes[p] : p \in DOMAIN d.phase_to_lanes}

\* What traci.lane.getWaitingTime may answer during a control call on
\* record d: nothing is asked unless the pressures are evaluated.
Readings(d) ==
  IF Evaluates(d) THEN [LanesRead(d) -> WaitValues] ELSE {<<>>}

Waiting(w) == \E l \in DOMAIN w : w[l] > 0

\* The engine calls of one control call: a waiting time per lane read and
\* the setPhase calls.
ControlCalls(w, o) == Cardinality(DOMAIN w) + Len(o.calls)

\* simulation_manager.py run(): loop test and traci.simulationStep().
MgrStep ==
  /\ impl = "manager" /\ pc = "loop"
  /\ LoopCondition(TRUE)
  /\ EngineStep
  /\ pc' = "ctl" /\ ctl' = 1
  /\ UNCHANGED <<impl, net, max_steps, step, traffic_lights, data_queue, netVars>>

\* traci.simulationStep() raises: nothing in run() catches it.
MgrEngineError ==
  /\ impl = "manager" /\ pc = "loop"
  /\ LoopCondition(TRUE)
  /\ pc' = "dead"
  /\ trail' = Called(trail, 2)
  /\ UNCHANGED <<impl, net, max_steps, ctl, step, traffic_lights, data_queue,
                 engVars, engineSteps, demand, hist, netVars>>

\* One call of _control_traffic_light_state_machine(tls_id, step).
MgrControl ==
  /\ impl = "manager" /\ pc = "ctl" /\ ctl <= Len(net.tls)
  /\ \E w \in Readings(traffic_lights[net.tls[ctl]]) :
     LET t == net.tls[ctl]
         d == traffic_lights[t]
         o == ManagerControl(d, w)
     IN /\ demand' = (demand \/ Waiting(w))
        /\ trail' = Called(trail, ControlCalls(w, o))
        /\ IF Accepted(t, o.calls)
           THEN /\ traffic_lights' = [traffic_lights EXCEPT ![t] = o.data]
                /\ enginePhase' = AfterCalls(enginePhase, t, o.calls)
                /\ hist' = [hist EXCEPT ![t] =
                              Record(@, o, d.current_phase_index, Evaluates(d),
                                     w, engineSteps)]
                /\ ctl' = ctl + 1
                /\ pc' = pc
           ELSE /\ traffic_lights' = [traffic_lights EXCEPT ![t].timer = @ + 1]
                /\ pc' = "dead"
                /\ hist' = [hist EXCEPT ![t].kind = "rejected", ![t].found = d]
                /\ UNCHANGED <<enginePhase, ctl>>
  /\ UNCHANGED <<impl, net, max_steps, step, data_queue, conn,
                 engineSteps, netVars>>

\* step += 1 after the loop over the signals.
MgrNextStep ==
  /\ impl = "manager" /\ pc = "ctl" /\ ctl > Len(net.tls)
  /\ step' = step + 1
  /\ pc' = "loop" /\ ctl' = 0
  /\ UNCHANGED <<impl, net, max_steps, traffic_lights, data_queue,
                 engVars, histVars, netVars>>

\* The loop test fails: traci.close().
MgrExit ==
  /\ impl = "manager" /\ pc = "loop"
  /\ \E more \in BOOLEAN : ~LoopCondition(more)
  /\ conn' = "closed"
  /\ pc' = "done"
  /\ trail' = Closed(Exited(trail))
  /\ UNCHANGED <<impl, net, max_steps, ctl, step, traffic_lights, data_queue,
                 enginePhase, engineSteps, demand, hist, netVars>>

\* ------------------------------------------------------------ server driver
\* human_readable_data, as far as the engine's state shows in it: the step
\* and raw_data['current_phase_index'] of the signal PHASE_MAPS names.
Snapshot(n, ph) == [step |-> n, current_phase_index |-> ph]

\* The None that run() puts on the queue when it ends.
NoneItem == [none |-> TRUE]

\* data_queue.put(item)
QueuePut(q, item) == Append(q, item)

\* simulation_server.py run(): loop test and traci.simulationStep().
SrvStep ==
  /\ impl = "server" /\ pc = "loop"
  /\ LoopCondition(TRUE)
  /\ EngineStep
  /\ pc' = "publish"
  /\ UNCHANGED <<impl, net, max_steps, ctl, step, traffic_lights, data_queue, netVars>>

\* traci.simulationStep() raises inside the try block.
SrvEngineError ==
  /\ impl = "server" /\ pc = "loop"
  /\ LoopCondition(TRUE)
  /\ pc' = "finally"
  /\ trail' = Called(trail, 2)
  /\ UNCHANGED <<impl, net, max_steps, ctl, step, traffic_lights, data_queue,
                 engVars, engineSteps, demand, hist, netVars>>

\* Gathering the data and data_queue.put(human_readable_data). The engine
\* is asked for the vehicles, for the lights of every discovered signal and
\* for the phase of list(PHASE_MAPS.keys())[0] whether or not the
\* network has that signal; for an unknown signal the call raises.
SrvPublish ==
  /\ impl = "server" /\ pc = "publish"
  /\ IF MainTls \in TlsIds(net)
     THEN /\ data_queue' = QueuePut(data_queue, Snapshot(step, enginePhase[MainTls]))
          /\ pc' = "ctl" /\ ctl' = 1
     ELSE /\ pc' = "finally"
          /\ UNCHANGED <<data_queue, ctl>>
  /\ trail' = Called(trail, Len(net.tls) + 2)
  /\ UNCHANGED <<impl, net, max_steps, step, traffic_lights,
                 engVars, engineSteps, demand, hist, netVars>>

\* One call of _control_traffic_light_state_machine(tls_id, step,
\* traci.trafficlight.getPhase(tls_id)).
SrvControl ==
  /\ impl = "server" /\ pc = "ctl" /\ ctl <= Len(net.tls)
  /\ \E w \in Readings(traffic_lights[net.tls[ctl]]) :
     LET t == net.tls[ctl]
         d == traffic_lights[t]
         o == ServerControl(d, w, enginePhase[t])
     IN /\ demand' = (demand \/ Waiting(w))
        /\ trail' = Called(trail, ControlCalls(w, o) + 1)
        /\ IF Accepted(t, o.calls)
           THEN /\ traffic_lights' = [traffic_lights EXCEPT ![t] = o.data]
                /\ enginePhase' = AfterCalls(enginePhase, t, o.calls)
                /\ hist' = [hist EXCEPT ![t] =
                              Record(@, o, enginePhase[t], Evaluates(d),
                                     w, engineSteps)]
                /\ ctl' = ctl + 1
                /\ pc' = pc
           ELSE /\ traffic_lights' = [traffic_lights EXCEPT ![t].timer = @ + 1]
                /\ pc' = "finally"
                /\ hist' = [hist EXCEPT ![t].kind = "rejected", ![t].found = d]
                /\ UNCHANGED <<enginePhase, ctl>>
  /\ UNCHANGED <<impl, net, max_steps, step, data_queue, conn,
                 engineSteps, netVars>>

\* step += 1 after the loop over the signals.
SrvNextStep ==
  /\ impl = "server" /\ pc = "ctl" /\ ctl > Len(net.tls)
  /\ step' = step + 1
  /\ pc' = "loop" /\ ctl' = 0
  /\ UNCHANGED <<impl, net, max_steps, traffic_lights, data_queue,
                 engVars, histVars, netVars>>

\* The loop test fails: control passes to the finally block.
SrvExit ==
  /\ impl = "server" /\ pc = "loop"
  /\ \E more \in BOOLEAN : ~LoopCondition(more)
  /\ pc' = "finally"
  /\ trail' = Exited(trail)
  /\ UNCHANGED <<impl, net, max_steps, ctl, step, traffic_lights, data_queue,
                 engVars, engineSteps, demand, hist, netVars>>

\* finally: traci.close()
SrvClose ==
  /\ impl = "server" /\ pc = "finally"
  /\ conn' = "closed"
  /\ pc' = "sentinel"
  /\ trail' = Closed(trail)
  /\ UNCHANGED <<impl, net, max_steps, ctl, step, traffic_lights, data_queue,
                 enginePhase, engineSteps, demand, hist, netVars>>

AfterSentinelLoop == "loop"

\* After data_queue.put(None) run() returns and its thread ends.
AfterSentinel == "done"

\* finally: data_queue.put(None)
SrvSentinel ==
  /\ impl = "server" /\ pc = "sentinel"
  /\ data_queue' = QueuePut(data_queue, NoneItem)
  /\ pc' = AfterSentinel
  /\ trail' = [trail EXCEPT !.callsAtSentinel = trail.engineCalls]
  /\ UNCHANGED <<impl, net, max_steps, ctl, step, traffic_lights,
                 engVars, engineSteps, demand, hist, netVars>>

Manager == MgrStep \/ MgrEngineError \/ MgrControl \/ MgrNextStep \/ MgrExit

Server ==
  \/ SrvStep \/ SrvEngineError \/ SrvPublish \/ SrvControl \/ SrvNextStep
  \/ SrvExit \/ SrvClose \/ SrvSentinel

Next == Manager \/ Server

Spec == Init /\ [][Next]_vars

\* The drivers on networks with little to decide; the driver's thread runs
\* whenever it can take a step.
FairNets == {NetQuiet, NetOther, NetNone}

InitFair == InitDriver(FairNets, MaxSteps, {"manager", "server"}) /\ InitNet

SpecFair == InitFair /\ [][Next]_vars /\ WF_vars(Next)

\* The drivers on the network whose main signal runs its second programme.
InitReject ==
  InitDriver({NetTwoProgrammes}, MaxSteps, {"manager", "server"}) /\ InitNet

SpecReject == InitReject /\ [][Next]_vars

\* ------------------------------------------------------------ fan-out
\* The websockets that may connect to /ws.
Clients == {"a", "b", "c"}

\* json.dumps(data): the text sent over the websocket.
Dumps(data) == [text |-> data]

Finished == [status |-> "finished"]

QueueGetLast(q) == [item |-> q[Len(q)], rest |-> SubSeq(q, 1, Len(q) - 1)]

\* data_queue.get_nowait() on a queue that is not empty.
QueueGet(q) == [item |-> Head(q), rest |-> Tail(q)]

\* self.active_connections.remove(websocket)
Remove(list, c) ==
  LET k == CHOOSE i \in 1..Len(list) : list[i] = c /\ \A j \in 1..(i - 1) : list[j] /= c
  IN SubSeq(list, 1, k - 1) \o SubSeq(list, k + 1, Len(list))

InitPipeNet ==
  /\ active_connections = <<>>
  /\ client = [c \in Clients |-> "idle"]
  /\ received = [c \in Clients |-> <<>>]
  /\ bpc = "poll"
  /\ bmsg = None
  /\ bidx = 0
  /\ bcur = None
  /\ blog = NoLog

PipeNets == {NetQuiet, NetNone}

InitPipe == InitDriver(PipeNets, PipeMaxSteps, {"server"}) /\ InitPipeNet

\* websocket_endpoint: manager.connect(websocket).
ClientConnect(c) ==
  /\ client[c] = "idle"
  /\ client' = [client EXCEPT ![c] = "open"]
  /\ active_connections' = Append(active_connections, c)
  /\ UNCHANGED <<simVars, engVars, histVars, received, bpc, bmsg, bidx, bcur, blog>>

\* The peer of an accepted websocket goes away; its handler has not run yet.
ClientDrop(c) ==
  /\ client[c] = "open"
  /\ client' = [client EXCEPT ![c] = "broken"]
  /\ UNCHANGED <<simVars, engVars, histVars, active_connections, received,
                 bpc, bmsg, bidx, bcur, blog>>

\* websocket_endpoint: receive_text raises WebSocketDisconnect,
\* manager.disconnect(websocket).
ClientDisconnect(c) ==
  /\ client[c] = "broken"
  /\ client' = [client EXCEPT ![c] = "closed"]
  /\ active_connections' = Remove(active_connections, c)
  /\ blog' = [blog EXCEPT !.stayed = @ \ {c}]
  /\ UNCHANGED <<simVars, engVars, histVars, received, bpc, bmsg, bidx, bcur>>

\* The for loop of manager.broadcast asks its list iterator for the next
\* connection, having taken n so far; final tells the finished message.
\* With none left broadcast returns: broadcast_data breaks after the
\* finished message and polls again otherwise.
BroadcastNext(n, msg, final, log) ==
  IF n < Len(active_connections)
  THEN /\ bpc' = "sending"
       /\ bcur' = active_connections[n + 1]
       /\ bidx' = n + 1
       /\ bmsg' = msg
       /\ blog' = log
  ELSE /\ bpc' = IF final THEN "ended" ELSE "poll"
       /\ bcur' = None
       /\ bidx' = 0
       /\ bmsg' = None
       /\ blog' = [log EXCEPT !.finished = final,
                              !.sendsAtFinished = IF final THEN log.sends ELSE @,
                              !.doneMsg = msg,
                              !.doneStayed = log.stayed,
                              !.stayed = {}]

\* broadcast_data: data_queue.get_nowait() raises queue.Empty,
\* await asyncio.sleep(0.1).
BroadcastEmpty ==
  /\ bpc = "poll"
  /\ data_queue = <<>>
  /\ bpc' = "sleeping"
  /\ UNCHANGED <<simVars, engVars, histVars, active_connections, client,
                 received, bmsg, bidx, bcur, blog>>

\* asyncio.sleep(0.1) returns.
BroadcastWake ==
  /\ bpc = "sleeping"
  /\ bpc' = "poll"
  /\ UNCHANGED <<simVars, engVars, histVars, active_connections, client,
                 received, bmsg, bidx, bcur, blog>>

\* broadcast_data: an item is taken and manager.broadcast runs up to its
\* first await.
BroadcastTake ==
  /\ bpc = "poll"
  /\ data_queue /= <<>>
  /\ LET g     == QueueGet(data_queue)
         final == g.item = NoneItem
         msg   == IF final THEN Dumps(Finished) ELSE Dumps(g.item)
         log   == [blog EXCEPT !.sentinel = @ \/ final,
                               !.stayed = Range(active_connections)]
     IN /\ data_queue' = g.rest
        /\ BroadcastNext(0, msg, final, log)
  /\ UNCHANGED <<impl, net, max_steps, pc, ctl, step, traffic_lights,
                 engVars, histVars, active_connections, client, received>>

\* await connection.send_text(message) returns.
BroadcastSent ==
  /\ bpc = "sending"
  /\ client[bcur] = "open"
  /\ received' = [received EXCEPT ![bcur] = Append(@, bmsg)]
  /\ BroadcastNext(bidx, bmsg, bmsg = Dumps(Finished),
                   [blog EXCEPT !.sends = @ + 1])
  /\ UNCHANGED <<simVars, engVars, histVars, active_connections, client>>

\* await connection.send_text(message) raises: the peer is gone. The
\* exception leaves manager.broadcast and broadcast_data's
\* "except Exception" breaks out of the loop.
BroadcastSendFails ==
  /\ bpc = "sending"
  /\ client[bcur] /= "open"
  /\ bpc' = "ended"
  /\ blog' = [blog EXCEPT !.failed = @ \cup {[to |-> bcur, msg |-> bmsg]},
                          !.sends = @ + 1]
  /\ UNCHANGED <<simVars, engVars, histVars, active_connections, client,
                 received, bmsg, bidx, bcur>>

Fanout ==
  \/ BroadcastEmpty \/ BroadcastWake \/ BroadcastTake
  \/ BroadcastSent \/ BroadcastSendFails

Endpoint == \E c \in Clients : ClientConnect(c) \/ ClientDrop(c) \/ ClientDisconnect(c)

NextPipe == Server \/ Fanout \/ Endpoint

SpecPipe == InitPipe /\ [][NextPipe]_vars

\* ------------------------------------------------------------ discovery runs
\* The characters of a drawn light-string and the link positions it has.
Chars == {"G", "g", "y", "Y", "r"}
Positions == {1, 2}
LightStrings == [Positions -> Chars]
PhaseLists == UNION {[1..n -> LightStrings] : n \in 1..MaxPhases}
\* getControlledLinks: per position no link, or one from lane L1 or L2.
LinkLists == [Positions -> {<<>>, <<Link("L1")>>, <<Link("L2")>>}]

\* The networks of one signal with a drawn programme and drawn links.
DiscoveryNets ==
  { [ tls    |-> <<MainTls>>,
      phases |-> [t \in {MainTls} |-> ph],
      links  |-> [t \in {MainTls} |-> lk] ] : ph \in PhaseLists, lk \in LinkLists }

\* The state run() is in after traci.start: self.traffic_lights = {} and
\* the signal shows the first phase of its programme.
InitDiscover ==
  /\ impl \in {"manager", "server"}
  /\ net \in DiscoveryNets
  /\ max_steps = MaxSteps
  /\ enginePhase = [t \in TlsIds(net) |-> 0]
  /\ traffic_lights = <<>>
  /\ pc = "start"
  /\ ctl = 0
  /\ step = 0
  /\ data_queue = <<>>
  /\ conn = "open"
  /\ engineSteps = 0
  /\ demand = FALSE
  /\ hist = [t \in TlsIds(net) |-> NoHist(enginePhase[t])]
  /\ trail = NoTrail
  /\ InitNet

\* simulation_manager.py: self._discover_network_and_phases()
MgrDiscover ==
  /\ impl = "manager" /\ pc = "start"
  /\ traffic_lights' =
       [t \in TlsIds(net) |->
          DiscoverManager(net.phases[t], net.links[t], enginePhase[t])]
  /\ pc' = "loop"
  /\ trail' = Called(trail, DiscoverCalls)
  /\ UNCHANGED <<impl, net, max_steps, ctl, step, data_queue,
                 engVars, engineSteps, demand, hist, netVars>>

\* simulation_server.py: self._discover_network_and_phases()
SrvDiscover ==
  /\ impl = "server" /\ pc = "start"
  /\ traffic_lights' =
       [t \in TlsIds(net) |-> DiscoverServer(net.phases[t], net.links[t])]
  /\ pc' = "loop"
  /\ trail' = Called(trail, DiscoverCalls)
  /\ UNCHANGED <<impl, net, max_steps, ctl, step, data_queue,
                 engVars, engineSteps, demand, hist, netVars>>

NextDiscover == MgrDiscover \/ SrvDiscover

SpecDiscover == InitDiscover /\ [][NextDiscover]_vars

\* ------------------------------------------------------------ commands
\* The command texts a client may send over /ws.
SetMode(m) == [command |-> "set_mode", value |-> m]
ForcePhase(p) == [command |-> "force_phase", value |-> p]
Texts == {SetMode("manual"), SetMode("auto")} \cup {ForcePhase(p) : p \in GreenPhases(NetF1.phases[MainTls])}

\* websocket_endpoint: await websocket.receive_text() returns a text. The
\* handler drops it and awaits the next one; run() reads nothing a handler
\* wrote. The history notes the text and the first loop iteration that
\* begins after it.
ClientText(c, text) ==
  /\ client[c] = "open"
  /\ Len(trail.texts) < MaxTexts
  /\ trail' = [trail EXCEPT !.texts =
                 Append(@, [text |-> text,
                            at |-> IF pc = "loop" THEN step ELSE step + 1])]
  /\ UNCHANGED <<simVars, engVars, engineSteps, demand, hist, netVars>>

InitCmdNet ==
  /\ active_connections = <<>>
  /\ client = [c \in {"a"} |-> "idle"]
  /\ received = [c \in {"a"} |-> <<>>]
  /\ bpc = "off"
  /\ bmsg = None
  /\ bidx = 0
  /\ bcur = None
  /\ blog = NoLog

InitCmd == InitDriver({NetF1}, CmdMaxSteps, {"server"}) /\ InitCmdNet

CmdEndpoint ==
  \E c \in DOMAIN client :
    \/ ClientConnect(c) \/ ClientDrop(c) \/ ClientDisconnect(c)
    \/ \E text \in Texts : ClientText(c, text)

NextCmd == Server \/ CmdEndpoint

SpecCmd == InitCmd /\ [][NextCmd]_vars

\* ------------------------------------------------------------ claims
Signals == DOMAIN hist
Keys(t) == DOMAIN traffic_lights[t].phase_to_lanes
\* The pressure the latest evaluation of signal t computed for phase p.
EvalPressure(t, p) == Pressure(traffic_lights[t].phase_to_lanes[p], hist[t].evalWait)
Evaluated(t) == hist[t].evalCur /= None

\* C1: a phase-set that leaves the green phase (to its yellow phase, or
\* directly to another phase) is issued only in a control step that is at
\* least the MIN_GREEN_TIME-th since the last completed transition (commit
\* or direct switch), or since discovery.
C1_MinimumGreen ==
  \A t \in Signals :
    hist[t].kind \in {"yellow", "direct"} => hist[t].sinceAt >= MIN_GREEN_TIME

\* A second switch, started in the tenth control step after a commit.
C1_Witness ==
  \E t \in Signals :
    /\ hist[t].kind = "yellow"
    /\ hist[t].prevSetKind = "commit"
    /\ hist[t].sinceAt = MIN_GREEN_TIME

\* C2: the phase-set that commits a target comes after exactly
\* YELLOW_PHASE_DURATION engine steps since the clearance phase was set, the
\* clearance phase-set being the previous phase-set of that signal, and the
\* target committed is the one chosen when YELLOW was entered; while YELLOW,
\* the stored target stays that one and the engine shows the clearance phase.
C2_YellowClearance ==
  \A t \in Signals :
    /\ hist[t].kind = "commit" =>
         /\ hist[t].prevSetKind = "yellow"
         /\ hist[t].stepsAtSet = YELLOW_PHASE_DURATION
         /\ hist[t].calls = <<hist[t].chosen>>
    /\ traffic_lights[t].state = "YELLOW" =>
         /\ traffic_lights[t].target_phase = hist[t].chosen
         /\ hist[t].setKind = "yellow"
         /\ enginePhase[t] = hist[t].lastSet

\* The stand-alone driver commits a target.
C2_Witness ==
  /\ impl = "manager"
  /\ \E t \in Signals : hist[t].kind = "commit" /\ hist[t].chosen = 2

\* C3: when the latest control step evaluated the pressures and the current
\* phase's pressure equals the maximum over the known green phases, that
\* step started no switch.
C3_TieKeepsCurrent ==
  \A t \in Signals :
    ( /\ Evaluated(t)
      /\ hist[t].evalCur \in Keys(t)
      /\ \A p \in Keys(t) : EvalPressure(t, p) <= EvalPressure(t, hist[t].evalCur) )
    => hist[t].kind = "hold"

\* Phase p alone has the largest pressure of signal t, and it is positive.
StrictMax(t, p) ==
  /\ p \in Keys(t)
  /\ EvalPressure(t, p) > 0
  /\ \A q \in Keys(t) \ {p} : EvalPressure(t, q) < EvalPressure(t, p)

\* C4: an evaluation in which another phase p alone has the largest
\* pressure, positive, while the current phase has a yellow mapping, issues
\* exactly one phase-set, to the current phase's yellow phase, and leaves
\* state YELLOW, target p, timer 0; and the fourth control step after
\* YELLOW was entered sets the chosen target, which is then the active phase.
C4_SwitchDecision ==
  \A t \in Signals :
    /\ \A p \in Keys(t) :
         ( /\ Evaluated(t)
           /\ p /= hist[t].evalCur
           /\ StrictMax(t, p)
           /\ hist[t].evalCur \in DOMAIN traffic_lights[t].yellow_phase_map )
         => /\ hist[t].calls = <<traffic_lights[t].yellow_phase_map[hist[t].evalCur]>>
            /\ hist[t].kind = "yellow"
            /\ traffic_lights[t].state = "YELLOW"
            /\ traffic_lights[t].target_phase = p
            /\ traffic_lights[t].timer = 0
    /\ (hist[t].chosen /= None /\ hist[t].sinceYellow = YELLOW_PHASE_DURATION)
         => /\ hist[t].calls = <<hist[t].chosen>>
            /\ traffic_lights[t].state = "GREEN"
            /\ enginePhase[t] = hist[t].chosen
            /\ impl = "manager" => traffic_lights[t].current_phase_index = hist[t].chosen

\* The scenario: phase 0 (lanes L1, L2) shown for ten steps, L1 = 5,
\* L2 = 0, L3 = 30: YELLOW towards phase 2.
C4_Witness ==
  /\ net = NetF1 /\ impl = "manager"
  /\ hist[MainTls].evalCur = 0
  /\ hist[MainTls].sinceAt = MIN_GREEN_TIME
  /\ hist[MainTls].evalWait = [l \in {"L1", "L2", "L3"} |->
                                 IF l = "L1" THEN 5 ELSE IF l = "L2" THEN 0 ELSE 30]
  /\ traffic_lights[MainTls].state = "YELLOW"
  /\ traffic_lights[MainTls].target_phase = 2

\* C5: as long as no waiting time read was above 0, no phase-set has been
\* issued, the state is GREEN and the phase is the initial one.
C5_NoDemandNoSwitch ==
  ~demand =>
    \A t \in Signals :
      /\ hist[t].lastSet = None
      /\ traffic_lights[t].state = "GREEN"
      /\ enginePhase[t] = hist[t].initial
      /\ impl = "manager" => traffic_lights[t].current_phase_index = hist[t].initial

\* An evaluation well past MIN_GREEN_TIME, all waiting times 0, the current
\* phase not the first of the green-phase table.
C5_Witness ==
  /\ ~demand
  /\ \E t \in Signals :
       /\ Evaluated(t)
       /\ hist[t].sinceAt > MIN_GREEN_TIME + 2
       /\ \E p \in Keys(t) : p < hist[t].evalCur

\* C6: when run() of the server has ended, the queue holds one snapshot
\* per engine step executed, with step counters 0, 1, 2, ... in order,
\* followed by the sentinel; the sentinel is put once, last, and only after
\* the engine connection is closed.
C6_TelemetryProduction ==
  impl = "server" =>
    /\ \A k \in 1..Len(data_queue) :
         data_queue[k] = NoneItem => (k = Len(data_queue) /\ conn = "closed")
    /\ pc = "done" =>
         /\ Len(data_queue) = engineSteps + 1
         /\ data_queue[Len(data_queue)] = NoneItem
         /\ \A k \in 1..engineSteps :
              data_queue[k] /= NoneItem /\ data_queue[k].step = k - 1

\* C7: broadcast_data's loop has ended only after it took the sentinel and
\* the broadcast of the finished message returned.
C7_FanoutTermination ==
  bpc = "ended" => (blog.sentinel /\ blog.finished)

\* C8: after a send of a snapshot to a client has failed, that client is
\* not in the active connection set and the loop has not ended on it.
C8_SendFailureIsolated ==
  \A f \in blog.failed :
    f.msg /= Dumps(Finished) =>
      /\ f.to \notin Range(active_connections)
      /\ ~(bpc = "ended" /\ ~blog.finished)

Count(seq, x) == Cardinality({k \in 1..Len(seq) : seq[k] = x})

\* C9: when the broadcast of a snapshot has returned, every client that was
\* in the active connection set from its start to its end has been sent
\* the snapshot exactly once.
C9_BroadcastComplete ==
  \A c \in blog.doneStayed :
    blog.doneMsg /= Dumps(Finished) => Count(received[c], blog.doneMsg) = 1

\* C10: what each client has been sent is a run of snapshots with strictly
\* increasing step counters, with the finished message, if any, last.
C10_FifoTelemetry ==
  \A c \in Clients :
    \A i, j \in 1..Len(received[c]) :
      i < j =>
        /\ received[c][i] /= Dumps(Finished)
        /\ received[c][j] /= Dumps(Finished) =>
             received[c][i].text.step < received[c][j].text.step

\* A client has been sent at least two snapshots and then the finished
\* message, after which the loop ended.
C10_Witness ==
  \E c \in Clients :
    /\ Len(received[c]) >= 3
    /\ received[c][Len(received[c])] = Dumps(Finished)
    /\ bpc = "ended"

\* C11: manual override. Once a client has sent SetMode("manual") and then
\* ForcePhase(p), the first loop iteration that begins after the ForcePhase
\* text issues setPhase(p): when that iteration is over, p is the phase that
\* was last set on a signal (within the first MIN_GREEN_TIME steps, where
\* the pressure rule sets nothing).
Forced(k) ==
  /\ k > 1
  /\ trail.texts[k].text.command = "force_phase"
  /\ trail.texts[k - 1].text = SetMode("manual")
C11_ManualOverride ==
  \A k \in DOMAIN trail.texts :
    (Forced(k) /\ step > trail.texts[k].at /\ step < MIN_GREEN_TIME)
      => \E t \in Signals : hist[t].lastSet = trail.texts[k].text.value

\* C12: engine rejection. When the engine rejects a setPhase call, the
\* signal's record keeps the state, target and phase the call found (the
\* timer had been incremented before the call), and run() is still in its
\* step loop, going on with the next signal and the next step.
Rejected(t) == hist[t].kind = "rejected"
C12_EngineRejection ==
  \A t \in Signals :
    Rejected(t) =>
      /\ traffic_lights[t] = [hist[t].found EXCEPT !.timer = @ + 1]
      /\ pc \in {"loop", "publish", "ctl"}

\* C13: no signals is not an error. On a network without traffic signals
\* the server's driver still pushes one snapshot for every engine step it
\* executed, leaves the loop only through the loop test (or a failing
\* simulationStep), and issues no setPhase.
Snapshots == {k \in DOMAIN data_queue : data_queue[k] /= NoneItem}
C13_NoSignalsRuns ==
  (impl = "server" /\ net.tls = <<>>) =>
    /\ pc \in {"loop", "finally", "sentinel", "done"}
         => Cardinality(Snapshots) = engineSteps
    /\ \A t \in Signals : hist[t].lastSet = None

\* Go and caution characters, and the lanes a phase serves, read off the
\* network as the engine describes it.
IsGo(c) == c \in {"G", "g"}
IsCaution(c) == c \in {"y", "Y"}
LightsOf(t, i) == net.phases[t][i + 1]
Discovered == DOMAIN traffic_lights = TlsIds(net)
Candidate(t, i) ==
  /\ \E k \in DOMAIN LightsOf(t, i) : IsGo(LightsOf(t, i)[k])
  /\ \A k \in DOMAIN LightsOf(t, i) : ~IsCaution(LightsOf(t, i)[k])
GoLanes(t, i) ==
  {lane \in Lanes(net) :
     \E k \in DOMAIN net.links[t] \cap DOMAIN LightsOf(t, i) :
       /\ IsGo(LightsOf(t, i)[k])
       /\ \E j \in DOMAIN net.links[t][k] : net.links[t][k][j][1] = lane}

\* C14: discovery invariant (keys). Every key of a signal's
\* yellow_phase_map is a key of its phase_to_lanes.
C14_YellowKeysAreGreenKeys ==
  \A t \in DOMAIN traffic_lights :
    DOMAIN traffic_lights[t].yellow_phase_map \subseteq Keys(t)

\* C15: discovery invariant (yellow). For every entry g -> y of a signal's
\* yellow_phase_map, phase y shows the caution character at every position
\* where phase g shows the go character.
C15_YellowCoversGreen ==
  \A t \in DOMAIN traffic_lights :
    \A g \in DOMAIN traffic_lights[t].yellow_phase_map :
      \A k \in DOMAIN LightsOf(t, g) :
        IsGo(LightsOf(t, g)[k])
          => IsCaution(LightsOf(t, traffic_lights[t].yellow_phase_map[g])[k])

\* C16: shutdown quiescence. Once run() has put the sentinel on the queue
\* it begins no further engine call, and once the broadcast of the finished
\* message has returned broadcast_data begins no further send.
C16_ShutdownQuiescence ==
  /\ trail.callsAtSentinel /= None => trail.engineCalls = trail.callsAtSentinel
  /\ blog.finished => blog.sends = blog.sendsAtFinished

\* The run has ended after engine steps, the finished message has gone out
\* to a client that had received a snapshot, and clients are still around.
C16_Witness ==
  /\ pc = "done" /\ engineSteps > 0
  /\ bpc = "ended" /\ blog.finished
  /\ \E c \in Clients :
       /\ client[c] = "open"
       /\ Len(received[c]) > 1
       /\ received[c][Len(received[c])] = Dumps(Finished)

\* C17: order within a step. When a step of the server's driver is over,
\* the snapshot pushed for that step shows the phase the signal has after
\* the step's control calls: it reflects any setPhase issued in the step.
C17_SnapshotAfterControl ==
  (impl = "server" /\ pc = "loop" /\ step > 0) =>
    LET last == data_queue[Len(data_queue)]
    IN /\ last.step = step - 1
       /\ last.current_phase_index = enginePhase[MainTls]

\* C18: step-loop termination. The loop executes at most max_steps engine
\* steps and none after its test has failed (on the ceiling or on the
\* engine reporting no vehicle left); traci.close() is called at most once,
\* and exactly once when run() has left the loop through its test; and
\* every run leaves the loop.
LoopLeft == pc \in {"finally", "sentinel", "done", "dead"}
C18_LoopBounded ==
  /\ engineSteps <= max_steps /\ step <= max_steps
  /\ trail.exit /= "none" => (LoopLeft /\ engineSteps = trail.stepsAtExit)
  /\ trail.closes <= 1
  /\ pc = "done" => (trail.closes = 1 /\ conn = "closed")
  /\ trail.closes = 1 => (conn = "closed" /\ LoopLeft)
NextShowsCaution(t, i) ==
  \E k \in DOMAIN LightsOf(t, (i + 1) % PhaseCount(net, t)) :
    IsCaution(LightsOf(t, (i + 1) % PhaseCount(net, t))[k])
C19_DiscoveryResult ==
  \A t \in DOMAIN traffic_lights :
    \A i \in 0..(PhaseCount(net, t) - 1) :
      /\ i \in Keys(t) <=> (Candidate(t, i) /\ GoLanes(t, i) /= {})
      /\ i \in Keys(t) => traffic_lights[t].phase_to_lanes[i] = GoLanes(t, i)
      /\ i \in DOMAIN traffic_lights[t].yellow_phase_map
           <=> (Candidate(t, i) /\ NextShowsCaution(t, i))

\* A discovered signal with a phase that shows go and caution (no
\* candidate), and a candidate that serves two lanes.
C19_Witness ==
  /\ Discovered /\ pc = "loop"
  /\ \E t \in DOMAIN traffic_lights :
       /\ \E i \in 0..(PhaseCount(net, t) - 1) :
            /\ ~Candidate(t, i)
            /\ \E k \in DOMAIN LightsOf(t, i) : IsGo(LightsOf(t, i)[k])
       /\ \E i \in Keys(t) : Cardinality(traffic_lights[t].phase_to_lanes[i]) > 1

\* C20: zero-lane green phases are never selected. The target of a yellow
\* transition and the phase of a direct switch serve at least one lane,
\* and a signal none of whose candidate green phases serves a lane never
\* has a phase set.
NoUsableGreen(t) ==
  \A i \in 0..(PhaseCount(net, t) - 1) : Candidate(t, i) => GoLanes(t, i) = {}
C20_ZeroLaneNeverSelected ==
  \A t \in Signals :
    /\ traffic_lights[t].target_phase /= None
         => GoLanes(t, traffic_lights[t].target_phase) /= {}
    /\ hist[t].kind = "direct" => GoLanes(t, hist[t].calls[1]) /= {}
    /\ (hist[t].lastSet /= None /\ hist[t].setKind /= "yellow")
         => GoLanes(t, hist[t].lastSet) /= {}
    /\ NoUsableGreen(t) => hist[t].lastSet = None

\* A signal on a green phase that serves a lane, with vehicles waiting,
\* keeps it although a zero-lane green phase comes first in the programme;
\* and a signal without a usable green phase has had its pressures
\* evaluated.
C20_Witness ==
  /\ \E t \in Signals :
       /\ Evaluated(t) /\ Waiting(hist[t].evalWait) /\ hist[t].kind = "hold"
       /\ \E i \in 0..(PhaseCount(net, t) - 1) :
            Candidate(t, i) /\ GoLanes(t, i) = {} /\ i < hist[t].evalCur
  /\ \E t \in Signals : NoUsableGreen(t) /\ Evaluated(t)

\* Phase p is the one the scan selects: its pressure is positive, larger
\* than that of every key before it and not smaller than any after it.
FirstMax(t, p) ==
  /\ p \in Keys(t)
  /\ EvalPressure(t, p) > 0
  /\ \A q \in Keys(t) :
       /\ q < p => EvalPressure(t, q) < EvalPressure(t, p)
       /\ q > p => EvalPressure(t, q) <= EvalPressure(t, p)

\* C21: degraded direct switch. An evaluation that selects a phase p other
\* than the current one, while the current phase has no entry in
\* yellow_phase_map, issues exactly one phase-set, to p, makes p the current
\* phase, resets the timer and leaves the state GREEN; and whenever the
\* state is YELLOW the phase last set is a yellow phase of the map.
C21_DegradedDirectSwitch ==
  \A t \in Signals :
    /\ \A p \in Keys(t) :
         ( /\ Evaluated(t)
           /\ FirstMax(t, p)
           /\ p /= hist[t].evalCur
           /\ hist[t].evalCur \notin DOMAIN traffic_lights[t].yellow_phase_map )
         => /\ hist[t].kind = "direct"
            /\ hist[t].calls = <<p>>
            /\ enginePhase[t] = p
            /\ traffic_lights[t].state = "GREEN"
            /\ traffic_lights[t].timer = 0
            /\ impl = "manager" => traffic_lights[t].current_phase_index = p
    /\ traffic_lights[t].state = "YELLOW"
         => /\ hist[t].setKind = "yellow"
            /\ enginePhase[t] = hist[t].lastSet
            /\ \E g \in DOMAIN traffic_lights[t].yellow_phase_map :
                 traffic_lights[t].yellow_phase_map[g] = hist[t].lastSet

\* The stand-alone driver has switched directly away from a phase that is
\* no discovered green phase.
C21_Witness ==
  /\ impl = "manager"
  /\ \E t \in Signals :
       /\ hist[t].kind = "direct"
       /\ hist[t].evalCur \notin Keys(t)
       /\ traffic_lights[t].current_phase_index = hist[t].calls[1]
       /\ traffic_lights[t].timer = 0

\* C22: at most one phase-set per intersection per step. Every control
\* call issues no setPhase or one, and a step of run() changes the record
\* and the phase of no signal but the one the control loop is at.
AtMostOneSet == \A t \in Signals : Len(hist[t].calls) <= 1
OnlyOwnRecord ==
  \A t \in DOMAIN traffic_lights :
    (traffic_lights'[t] /= traffic_lights[t] \/ enginePhase'[t] /= enginePhase[t])
      => (pc = "ctl" /\ ctl <= Len(net.tls) /\ net.tls[ctl] = t)
C22_OneSetPerStep == []AtMostOneSet /\ [][OnlyOwnRecord]_vars

\* In one step the control call of one signal has set a phase and that of
\* another, which evaluated its pressures too, has set none.
C22_Witness ==
  \E t \in Signals : \E u \in Signals \ {t} :
    /\ Len(hist[t].calls) = 1
    /\ hist[u].calls = <<>> /\ Evaluated(u)
    /\ hist[t].at = hist[u].at
    /\ traffic_lights[u].timer >= MIN_GREEN_TIME

\* C23: YELLOW-state invariant of simulation_manager.py. While a signal's
\* state is YELLOW its target_phase is set, is a key of phase_to_lanes and
\* differs from current_phase_index, its timer is below
\* YELLOW_PHASE_DURATION, and the phase last set is the yellow phase of
\* current_phase_index; while it is GREEN after a phase-set,
\* current_phase_index is the phase last set.
C23_YellowStateInvariant ==
  impl = "manager" =>
    \A t \in Signals :
      LET d == traffic_lights[t] IN
      /\ d.state = "YELLOW" =>
           /\ d.target_phase /= None
           /\ d.target_phase \in Keys(t)
           /\ d.target_phase /= d.current_phase_index
           /\ d.timer < YELLOW_PHASE_DURATION
           /\ d.current_phase_index \in DOMAIN d.yellow_phase_map
           /\ hist[t].lastSet = d.yellow_phase_map[d.current_phase_index]
      /\ (d.state = "GREEN" /\ hist[t].lastSet /= None) =>
           d.current_phase_index = hist[t].lastSet

====
